---- MODULE Spec2Model ----
(***************************************************************************)
(* Webhook middleware: signature verification (utils/security.js), the     *)
(* per-source integrations, the dispatcher routes (routes/webhooks.js) and *)
(* the Salesforce connector (connectors/salesforce.js).                    *)
(*                                                                         *)
(* Node.js runs one synchronous block at a time: `running` names the       *)
(* request whose handler currently holds the event loop (0 = the loop is   *)
(* idle).  A handler gives the loop up only at an `await` on a pending     *)
(* promise and when it returns.                                            *)
(*                                                                         *)
(* Spec        the routes serving requests, down to the connector's create *)
(* SpecFair    Spec under fair scheduling, with every await settling       *)
(* SpecVerify  verifyGithubSignature on its own                            *)
(* SpecProcess one call of integration.process(data)                       *)
(* SpecRoute   the GitHub route from its data object to the record         *)
(* SpecArgs    what updateRecord and deleteRecord hand to the sink         *)
(* SpecConn    the connector's methods called directly, overlapping        *)
(***************************************************************************)
EXTENDS Integers, Sequences, FiniteSets, TLC

\* ------------------------------------------------------------- bounds
NumReq == 2

\* 'sha256=' (7 characters) followed by 64 hex characters
DigestLen == 71

Req == 1..NumReq

\* Callers of the connector's methods
NumTask == 2
Task == 1..NumTask

\* Operations a caller registers on one unit of work, at most
MaxUowOps == 2
\* The records the sink returns in one page of a query
BatchSize == 1

Sources == {"github", "sendgrid", "stripe"}
Secrets == {"", "s1"}

\* ------------------------------------------------------------- values
\* A JSON scalar as the transforms read it: absent, a number, or a string.
JAbsent == [t |-> "absent", n |-> 0]
JNum(k) == [t |-> "num", n |-> k]
JStr == [t |-> "str", n |-> 0]
\* null, a nested object with the keys of record o, and the TypeError of
\* reading a property of undefined or null
JNull == [t |-> "null", n |-> 0]
JObj(o) == [t |-> "obj", n |-> 0, o |-> o]
JThrow == [t |-> "throw", n |-> 0]

\* obj.key: a key the object does not carry reads as undefined
Field(o, key) == IF key \in DOMAIN o THEN o[key] ELSE JAbsent

\* v.key without the guard: a TypeError when v is undefined or null
PlainGet(v, key) ==
  IF v.t \in {"absent", "null"} THEN JThrow
  ELSE IF v.t = "obj" THEN Field(v.o, key) ELSE JAbsent

\* v?.key
OptChain(v, key) ==
  IF v.t \in {"absent", "null"} THEN JAbsent
  ELSE IF v.t = "obj" THEN Field(v.o, key) ELSE JAbsent

\* { ...a, ...b }: b's keys win
Spread(a, b) ==
  [k \in DOMAIN a \cup DOMAIN b |-> IF k \in DOMAIN b THEN b[k] ELSE a[k]]

\* A string with its content told apart by k
JText(k) == [t |-> "str", n |-> k]

\* The own keys of a parsed object: a key written here as absent is no key
Present(o) == [k \in {j \in DOMAIN o : o[j] # JAbsent} |-> o[k]]

\* Parsed request bodies (req.body after bodyParser.json()).
PlainBody == [created |-> JAbsent, timestamp |-> JAbsent]
TimedBody == [created |-> JNum(1), timestamp |-> JNum(1)]
BadTimeBody == [created |-> JStr, timestamp |-> JStr]

\* A text is the value it denotes together with its formatting: "compact" is
\* what JSON.stringify emits, "spaced" carries insignificant whitespace,
\* "empty" is the empty string.
EmptyText == [obj |-> PlainBody, fmt |-> "empty"]
Text(o, f) == [obj |-> o, fmt |-> f]

JsonParse(text) == text.obj
JsonStringify(o) == Text(o, "compact")

\* A header value: len < 0 is an absent header, len = 0 the empty string.
\* mac is what the value was computed from (a keyed digest is determined by
\* its key and message, and differs for different keys or messages); diff is
\* the positions at which the value departs from that digest.
NoMac == <<"", EmptyText>>
Absent == [len |-> -1, mac |-> NoMac, diff |-> {}]
EmptyStr == [len |-> 0, mac |-> NoMac, diff |-> {}]
Falsy(s) == s.len <= 0

\* 'sha256=' + HMAC-SHA256(secret, payload) in hex
HmacDigest(secret, payload) ==
  [len |-> DigestLen, mac |-> <<secret, payload>>, diff |-> {}]
\* a proper prefix of such a digest, and a short arbitrary string
Truncated(secret, payload) ==
  [len |-> DigestLen - 1, mac |-> <<secret, payload>>, diff |-> {}]
ShortJunk == [len |-> 3, mac |-> NoMac, diff |-> {}]
\* such a digest with the character at position i changed
Flipped(secret, payload, i) ==
  [len |-> DigestLen, mac |-> <<secret, payload>>, diff |-> {i}]

\* ------------------------------------------------------------- security.js
Returned(b) == [threw |-> FALSE, ret |-> b]
Threw == [threw |-> TRUE, ret |-> FALSE]

\* crypto.timingSafeEqual: a RangeError when the byte lengths differ
timingSafeEqual(a, b) ==
  IF a.len # b.len THEN Threw ELSE Returned(a = b)

verifyGithubSignature(payload, signature, secret) ==
  IF payload.fmt = "empty" \/ Falsy(signature) \/ secret = ""
  THEN Returned(FALSE)
  ELSE timingSafeEqual(HmacDigest(secret, payload), signature)

\* The bytes a comparison of two buffers of one length looks at.  A
\* comparison that stops at the first difference looks at the bytes up to it;
\* crypto.timingSafeEqual looks at every byte, whatever they hold.
BytesComparedUntilMismatch(a, b) ==
  IF a.mac # b.mac THEN 1
  ELSE LET d == (a.diff \ b.diff) \cup (b.diff \ a.diff)
       IN  IF d = {} THEN a.len ELSE CHOOSE i \in d : \A j \in d : i <= j

BytesCompared(a, b) == a.len

\* The bytes verifyGithubSignature compares in one call: none when it returns
\* at the guard or timingSafeEqual refuses the lengths.
ComparisonWork(payload, signature, secret) ==
  IF payload.fmt = "empty" \/ Falsy(signature) \/ secret = ""
  THEN 0
  ELSE IF HmacDigest(secret, payload).len # signature.len
       THEN 0
       ELSE BytesCompared(HmacDigest(secret, payload), signature)

verifyStripeSignatureChecks(payload, signature, secret) ==
  Returned(secret # "" /\ signature = HmacDigest(secret, payload))

verifyStripeSignature(payload, signature, secret) == Returned(TRUE)

verifySendGridSignature(payload, signature, secret) == Returned(TRUE)

\* ------------------------------------------------------------- integrations
\* req = [source, raw, sig]: the route, the body as received, and the value of
\* the route's signature header.  req.body is the parsed body.
ReqBody(req) == JsonParse(req.raw)

GitHubVerifyRequestNoBypass(cfg, req) ==
  IF Falsy(req.sig) THEN Returned(FALSE)
  ELSE verifyGithubSignature(JsonStringify(ReqBody(req)), req.sig, cfg.secret["github"])

GitHubVerifyRequest(cfg, req) ==
  IF cfg.testing THEN Returned(TRUE)
  ELSE IF Falsy(req.sig) THEN Returned(FALSE)
  ELSE verifyGithubSignature(JsonStringify(ReqBody(req)), req.sig, cfg.secret["github"])

StripeVerifyRequest(cfg, req) ==
  IF Falsy(req.sig) THEN Returned(FALSE)
  ELSE verifyStripeSignature(JsonStringify(ReqBody(req)), req.sig, cfg.secret["stripe"])

SendGridVerifyRequest(cfg, req) ==
  IF Falsy(req.sig) THEN Returned(FALSE)
  ELSE verifySendGridSignature(JsonStringify(ReqBody(req)), req.sig, cfg.secret["sendgrid"])

verifyRequest(cfg, req) ==
  CASE req.source = "github" -> GitHubVerifyRequest(cfg, req)
    [] req.source = "stripe" -> StripeVerifyRequest(cfg, req)
    [] req.source = "sendgrid" -> SendGridVerifyRequest(cfg, req)

\* data = { ...req.body, headers: req.headers }
MakeData(req) ==
  [created |-> ReqBody(req).created, timestamp |-> ReqBody(req).timestamp,
   headers |-> req.sig]

IntegrationName(source) ==
  CASE source = "github" -> "GitHub"
    [] source = "stripe" -> "Stripe"
    [] source = "sendgrid" -> "SendGrid"

Truthy(v) == (v.t = "num" /\ v.n # 0) \/ v.t \in {"str", "obj"}

\* new Date(v * 1000).toISOString(): a RangeError on an invalid date
DateThrows(v) == v.t # "num"
IsoOfSeconds(v) == [t |-> "iso", n |-> v.n * 1000]

\* amount / 100, kept as whole units and hundredths
AmountOf(v) == [t |-> "dec", n |-> v.n \div 100, c |-> v.n % 100]

\* x ? new Date(x * 1000).toISOString() : null
IsoOrNull(v) ==
  IF Truthy(v) THEN (IF DateThrows(v) THEN JThrow ELSE IsoOfSeconds(v)) ELSE JNull

\* `now` stands for the instant of the call (new Date()).
BaseTransformStampsStatus(name, data, now) ==
  [Name |-> <<name, "Integration", now>>,
   Source__c |-> name,
   Raw_Data__c |-> JsonStringify(data),
   Status__c |-> <<"Received", now>>]

BaseTransform(name, data, now) ==
  [Name |-> <<name, "Integration", now>>,
   Source__c |-> name,
   Raw_Data__c |-> JsonStringify(data),
   Status__c |-> "Received"]

\* The fields each variant adds to the base set.
GitHubExtra(data) ==
  [Event_Type__c |-> Field(data, "event"),
   Repository__c |-> OptChain(Field(data, "repository"), "full_name"),
   Sender__c |-> OptChain(Field(data, "sender"), "login")]

StripeExtra(data) ==
  LET amount == OptChain(OptChain(Field(data, "data"), "object"), "amount")
  IN  [Event_Type__c |-> Field(data, "type"),
       Customer_Id__c |-> OptChain(OptChain(Field(data, "data"), "object"), "customer"),
       Amount__c |-> IF amount.t = "throw" THEN JThrow
                     ELSE IF Truthy(amount) THEN AmountOf(amount) ELSE JNull,
       Created__c |-> IsoOrNull(Field(data, "created"))]

SendGridExtra(data) ==
  [Event_Type__c |-> Field(data, "event"),
   Email__c |-> Field(data, "email"),
   Timestamp__c |-> IsoOrNull(Field(data, "timestamp"))]

\* An exception raised while the object literal is evaluated
AnyThrow(extra) == \E k \in DOMAIN extra : extra[k].t = "throw"

\* [threw, fields]: each variant's transformForSalesforce:
\* { ...baseData, <the variant's fields> }
GitHubTransformDropsBase(data, now) ==
  [threw |-> AnyThrow(GitHubExtra(data)), fields |-> GitHubExtra(data)]

GitHubTransform(data, now) ==
  [threw |-> AnyThrow(GitHubExtra(data)),
   fields |-> Spread(BaseTransform("GitHub", data, now), GitHubExtra(data))]

StripeTransform(data, now) ==
  [threw |-> AnyThrow(StripeExtra(data)),
   fields |-> Spread(BaseTransform("Stripe", data, now), StripeExtra(data))]

SendGridTransform(data, now) ==
  [threw |-> AnyThrow(SendGridExtra(data)),
   fields |-> Spread(BaseTransform("SendGrid", data, now), SendGridExtra(data))]

transformForSalesforce(source, data, now) ==
  CASE source = "github" -> GitHubTransform(data, now)
    [] source = "stripe" -> StripeTransform(data, now)
    [] source = "sendgrid" -> SendGridTransform(data, now)

\* ------------------------------------------------------------- state
VARIABLES
  config,     \* [testing, secret]: config/index.js, fixed at start-up
  req,        \* req[r]: the request as received, kept while the handler reads
              \* it (through the transform); the record built from it is
              \* then named by r
  pc,         \* pc[r]: where request r's handler stands
  running,    \* the request whose synchronous block is executing, 0 if none
  responses,  \* responses[r]: the status codes sent for r, in order
  hist,       \* hist[r]: how often r's handler called / logged what
  verdict,    \* verdict[r]: what verifyRequest did for r ("none" before it ran)
  err,        \* err[r]: the error r's handler caught ("" if none)
  via,        \* via[r]: the org whose dataApi carries r's pending create
  org,        \* the connector's this.org (0 = null)
  dataApi,    \* the connector's this.dataApi, named by its org (0 = null)
  nOrgs,      \* connections the SDK has handed out so far
  expired,    \* orgs whose session the sink no longer accepts
  sinkRecords,\* the requests whose record the sink has stored
  vcall,      \* one call of verifyGithubSignature and its outcome
  pcall,      \* one call of an integration's process(data) and its outcome
  calls,      \* calls[t]: caller t's call of a connector method
  store,      \* what the sink has applied: <<t, ref>> for operation ref of
              \* caller t's call
  ucall       \* one call of updateRecord or deleteRecord: its arguments and
              \* the request it handed to dataApi

vars == <<config, req, pc, running, responses, hist, verdict, err, via, org, dataApi,
          nOrgs, expired, sinkRecords, vcall, pcall, calls, store,
          ucall>>

NoReq == [source |-> "github", raw |-> EmptyText, sig |-> Absent]
NoHist == [process |-> 0, transform |-> 0, getConnection |-> 0, create |-> 0,
           errorLog |-> 0, infoLog |-> 0]
NoCall == [payload |-> EmptyText, signature |-> Absent, secret |-> "",
           done |-> FALSE, out |-> Returned(FALSE), work |-> 0]

\* What an awaited call ended with: a result ({id, success, errors}, or for a
\* commit the results keyed by the ReferenceIds in refs) or an exception.
NoOutcome == [kind |-> "none", success |-> FALSE, error |-> "", refs |-> {}]
Resolved(success, refs) ==
  [kind |-> "return", success |-> success, error |-> "", refs |-> refs]
Rejected(error) == [kind |-> "throw", success |-> FALSE, error |-> error, refs |-> {}]

NoSubmission == [call |-> "none"]
NoArgCall == [op |-> "none", type |-> "", id |-> JAbsent, fields |-> [Id |-> JAbsent],
              done |-> FALSE, sent |-> NoSubmission]
NoRouteReq == [headers |-> [event |-> JAbsent], body |-> PlainBody]
NoProcess == [source |-> "github", data |-> PlainBody, now |-> 0, st |-> "none",
              sent |-> <<>>, connOut |-> NoOutcome, out |-> NoOutcome,
              req |-> NoRouteReq]
NoApiCall == [op |-> "none", uow |-> 0, pc |-> "idle", sent |-> 0, conns |-> 0,
              via |-> 0, out |-> NoOutcome]

\* The bodies that arrive, as sent: one in JSON.stringify's own formatting,
\* the same value with whitespace, one with numeric time fields and one whose
\* time fields are not numbers.
RawBodies ==
  {Text(PlainBody, "compact"), Text(PlainBody, "spaced"),
   Text(TimedBody, "compact"), Text(BadTimeBody, "compact")}

\* Signature header values a sender may attach to body `raw`: none or empty; the digest
\* of the body as sent and of its re-serialisation under the shared secret;
\* a digest under a secret the server does not hold; a cut-off digest.
SigChoices(raw) ==
  {Absent,
   EmptyStr,
   HmacDigest("s1", raw),
   HmacDigest("s1", JsonStringify(JsonParse(raw))),
   HmacDigest("s2", raw),
   Truncated("s1", raw)}

\* Start-up configurations: testing mode on or off, and each source's webhook
\* secret set in the environment or missing from it.
Configs == [testing : BOOLEAN, secret : [Sources -> Secrets]]

Init ==
  /\ config \in Configs
  /\ req = [r \in Req |-> NoReq]
  /\ pc = [r \in Req |-> "idle"]
  /\ running = 0
  /\ responses = [r \in Req |-> <<>>]
  /\ hist = [r \in Req |-> NoHist]
  /\ verdict = [r \in Req |-> "none"]
  /\ err = [r \in Req |-> ""]
  /\ via = [r \in Req |-> 0]
  /\ org = 0
  /\ dataApi = 0
  /\ nOrgs = 0
  /\ expired = {}
  /\ sinkRecords = {}
  /\ vcall = NoCall
  /\ pcall = NoProcess
  /\ calls = [t \in Task |-> NoApiCall]
  /\ store = {}
  /\ ucall = NoArgCall

Bump(r, what) == [hist EXCEPT ![r][what] = @ + 1]

connectorVars == <<org, dataApi, nOrgs, expired, sinkRecords>>
apiVars == <<pcall, calls, store, ucall>>

\* ------------------------------------------------------------- dispatcher
\* Express calls the route handler; requests are numbered as they arrive.
Receive(r) ==
  /\ running = 0
  /\ pc[r] = "idle"
  /\ \A q \in Req : q < r => pc[q] # "idle"
  /\ \E source \in Sources, raw \in RawBodies :
       \E sig \in SigChoices(raw) :
         req' = [req EXCEPT ![r] = [source |-> source, raw |-> raw, sig |-> sig]]
  /\ pc' = [pc EXCEPT ![r] = "verify"]
  /\ running' = r
  /\ UNCHANGED <<config, responses, hist, verdict, err, via, connectorVars, vcall, apiVars>>

\* Where the handler goes on the outcome of verifyRequest: an exception lands
\* in the catch block, false answers 401, true goes on to the 202.
PcAfterVerifySkipsAck(res) ==
  IF res.threw THEN "catch" ELSE IF ~res.ret THEN "reject" ELSE "process"

PcAfterVerify(res) ==
  IF res.threw THEN "catch" ELSE IF ~res.ret THEN "reject" ELSE "ack"

\* if (!integration.verifyRequest(req))
Verify(r) ==
  /\ running = r
  /\ pc[r] = "verify"
  /\ LET res == verifyRequest(config, req[r])
     IN  /\ pc' = [pc EXCEPT ![r] = PcAfterVerify(res)]
         /\ verdict' = [verdict EXCEPT ![r] =
                          IF res.threw THEN "threw" ELSE IF res.ret THEN "true" ELSE "false"]
         /\ err' = [err EXCEPT ![r] = IF res.threw THEN "verifyThrew" ELSE @]
  /\ UNCHANGED <<config, req, running, responses, hist, via, connectorVars, vcall, apiVars>>

\* The handler has returned: its request and locals are garbage.
Discard(r) ==
  /\ req' = [req EXCEPT ![r] = NoReq]
  /\ via' = [via EXCEPT ![r] = 0]

\* `return` after the 401: the handler is over.
PcAfterRejectFallsThrough == "ack"

PcAfterReject == "done"

\* return res.status(401).json({ error: 'Invalid signature' })
Reject(r) ==
  /\ running = r
  /\ pc[r] = "reject"
  /\ responses' = [responses EXCEPT ![r] = Append(@, 401)]
  /\ pc' = [pc EXCEPT ![r] = PcAfterReject]
  /\ IF PcAfterReject = "done"
     THEN running' = 0 /\ Discard(r)
     ELSE UNCHANGED <<running, req, via>>
  /\ UNCHANGED <<config, hist, verdict, err, connectorVars, vcall, apiVars>>

\* res.status(202).json({ status: 'processing' })
Ack(r) ==
  /\ running = r
  /\ pc[r] = "ack"
  /\ responses' = [responses EXCEPT ![r] = Append(@, 202)]
  /\ pc' = [pc EXCEPT ![r] = "process"]
  /\ UNCHANGED <<config, req, running, hist, verdict, err, via, connectorVars, vcall, apiVars>>

\* integration.process(data) -> sendToSalesforce(data)
Process(r) ==
  /\ running = r
  /\ pc[r] = "process"
  /\ hist' = Bump(r, "process")
  /\ pc' = [pc EXCEPT ![r] = "transform"]
  /\ UNCHANGED <<config, req, running, responses, verdict, err, via, connectorVars, vcall, apiVars>>

Transform(r) ==
  /\ running = r
  /\ pc[r] = "transform"
  /\ hist' = Bump(r, "transform")
  /\ LET t == transformForSalesforce(req[r].source, MakeData(req[r]), r)
     IN  /\ pc' = [pc EXCEPT ![r] = IF t.threw THEN "catch" ELSE "create"]
         /\ err' = [err EXCEPT ![r] = IF t.threw THEN "transformThrew" ELSE @]
  /\ UNCHANGED <<config, req, running, responses, verdict, via, connectorVars, vcall, apiVars>>

\* What the catch block sends to the source: nothing.
CatchSends500(resps) == Append(resps, 500)

CatchResponse(resps) == resps

\* catch (error) { logger.error(...) }
Catch(r) ==
  /\ running = r
  /\ pc[r] = "catch"
  /\ hist' = Bump(r, "errorLog")
  /\ responses' = [responses EXCEPT ![r] = CatchResponse(@)]
  /\ pc' = [pc EXCEPT ![r] = "done"]
  /\ running' = 0
  /\ Discard(r)
  /\ UNCHANGED <<config, verdict, err, connectorVars, vcall, apiVars>>

\* ------------------------------------------------------------- connector
\* createIntegrationRecord with no dataApi: initialize() calls getConnection
\* and the handler waits for it.
CreateInitialize(r) ==
  /\ running = r
  /\ pc[r] = "create"
  /\ dataApi = 0
  /\ hist' = Bump(r, "getConnection")
  /\ pc' = [pc EXCEPT ![r] = "awaitConn"]
  /\ running' = 0
  /\ req' = [req EXCEPT ![r] = NoReq]
  /\ UNCHANGED <<config, responses, verdict, err, via, connectorVars, vcall, apiVars>>

\* this.dataApi.create(recordToCreate): the call goes out on the dataApi the
\* connector holds at that moment.
SubmitCreate(r) ==
  /\ dataApi # 0
  /\ \/ running = r /\ pc[r] = "create"
     \/ running = 0 /\ pc[r] = "connected"
  /\ via' = [via EXCEPT ![r] = dataApi]
  /\ hist' = Bump(r, "create")
  /\ pc' = [pc EXCEPT ![r] = "awaitCreate"]
  /\ running' = 0
  /\ req' = [req EXCEPT ![r] = NoReq]
  /\ UNCHANGED <<config, responses, verdict, err, connectorVars, vcall, apiVars>>

\* getConnection resolves: this.org = <the new org>; this.dataApi = this.org.dataApi
ConnResolve(r) ==
  /\ running = 0
  /\ pc[r] = "awaitConn"
  /\ nOrgs' = nOrgs + 1
  /\ org' = nOrgs + 1
  /\ dataApi' = nOrgs + 1
  /\ pc' = [pc EXCEPT ![r] = "connected"]
  /\ UNCHANGED <<config, req, running, responses, hist, verdict, err, via, expired,
                 sinkRecords, vcall, apiVars>>

\* getConnection rejects: every layer logs and rethrows up to the route.
ConnReject(r) ==
  /\ running = 0
  /\ pc[r] = "awaitConn"
  /\ err' = [err EXCEPT ![r] = "connectionFailed"]
  /\ pc' = [pc EXCEPT ![r] = "catch"]
  /\ running' = r
  /\ UNCHANGED <<config, req, responses, hist, verdict, via, connectorVars, vcall, apiVars>>

\* What createIntegrationRecord does with a rejected create: log and rethrow.
CreateFailedNeverSettles(r, error) ==
  /\ pc' = [pc EXCEPT ![r] = "retryWait"]
  /\ UNCHANGED <<config, req, running, responses, hist, verdict, err, via,
                 connectorVars, vcall, apiVars>>

CreateFailedDropsConnection(r, error) ==
  /\ err' = [err EXCEPT ![r] = error]
  /\ pc' = [pc EXCEPT ![r] = "catch"]
  /\ running' = r
  /\ org' = 0
  /\ dataApi' = 0
  /\ UNCHANGED <<config, req, responses, hist, verdict, via, nOrgs, expired,
                 sinkRecords, vcall, apiVars>>

CreateFailed(r, error) ==
  /\ err' = [err EXCEPT ![r] = error]
  /\ pc' = [pc EXCEPT ![r] = "catch"]
  /\ running' = r
  /\ UNCHANGED <<config, req, responses, hist, verdict, via, connectorVars, vcall, apiVars>>

\* The sink stores the record; the route logs success.
CreateOk(r) ==
  /\ running = 0
  /\ pc[r] = "awaitCreate"
  /\ via[r] \notin expired
  /\ sinkRecords' = sinkRecords \cup {r}
  /\ hist' = Bump(r, "infoLog")
  /\ pc' = [pc EXCEPT ![r] = "done"]
  /\ Discard(r)
  /\ UNCHANGED <<config, running, responses, verdict, err, org, dataApi, nOrgs,
                 expired, vcall, apiVars>>

\* The sink answers with { id, success: false, errors: [...] } and stores
\* nothing; the result is returned like any other and the route logs success.
CreateUnsuccessful(r) ==
  /\ running = 0
  /\ pc[r] = "awaitCreate"
  /\ via[r] \notin expired
  /\ hist' = Bump(r, "infoLog")
  /\ pc' = [pc EXCEPT ![r] = "done"]
  /\ Discard(r)
  /\ UNCHANGED <<config, running, responses, verdict, err, connectorVars, vcall, apiVars>>

\* The sink refuses the record for its own validation reasons.
CreateRejected(r) ==
  /\ running = 0
  /\ pc[r] = "awaitCreate"
  /\ via[r] \notin expired
  /\ CreateFailed(r, "validation")

\* The sink refuses the call because the session it came on is no longer valid.
CreateExpired(r) ==
  /\ running = 0
  /\ pc[r] = "awaitCreate"
  /\ via[r] \in expired
  /\ CreateFailed(r, "INVALID_SESSION")

\* The sink ends a session that is in use.
ExpireSession(o) ==
  /\ running = 0
  /\ o # 0
  /\ o \notin expired
  /\ o = dataApi \/ \E r \in Req : pc[r] = "awaitCreate" /\ via[r] = o
  /\ \E r \in Req : pc[r] # "done"
  /\ expired' = expired \cup {o}
  /\ UNCHANGED <<config, req, pc, running, responses, hist, verdict, err, via, org,
                 dataApi, nOrgs, sinkRecords, vcall, apiVars>>

Next ==
  \/ \E r \in Req : Receive(r)
  \/ \E r \in Req : Verify(r)
  \/ \E r \in Req : Reject(r)
  \/ \E r \in Req : Ack(r)
  \/ \E r \in Req : Process(r)
  \/ \E r \in Req : Transform(r)
  \/ \E r \in Req : Catch(r)
  \/ \E r \in Req : CreateInitialize(r)
  \/ \E r \in Req : SubmitCreate(r)
  \/ \E r \in Req : ConnResolve(r)
  \/ \E r \in Req : ConnReject(r)
  \/ \E r \in Req : CreateOk(r)
  \/ \E r \in Req : CreateUnsuccessful(r)
  \/ \E r \in Req : CreateRejected(r)
  \/ \E r \in Req : CreateExpired(r)
  \/ \E o \in 1..NumReq : ExpireSession(o)

Spec == Init /\ [][Next]_vars

\* The same program under the scheduling Node.js gives it: code that can run
\* does run, and (the environment's part) every getConnection and every
\* request to the sink is settled in the end.  Arrivals and session expiry
\* are under no such obligation.
HandlerStep(r) ==
  \/ Verify(r) \/ Reject(r) \/ Ack(r) \/ Process(r) \/ Transform(r) \/ Catch(r)
  \/ CreateInitialize(r) \/ SubmitCreate(r)

Settles(r) ==
  \/ ConnResolve(r) \/ ConnReject(r)
  \/ CreateOk(r) \/ CreateUnsuccessful(r) \/ CreateRejected(r) \/ CreateExpired(r)

SpecFair ==
  /\ Init /\ [][Next]_vars
  /\ \A r \in Req : WF_vars(HandlerStep(r)) /\ WF_vars(Settles(r))

\* ------------------------------------------------------------- verifier alone
\* verifyGithubSignature applied once to inputs drawn from bounded sets.
VerifyPayloads == {EmptyText} \cup RawBodies

VerifySecrets == {"", "s1", "s2"}

\* Where a forged digest departs from the true one: in the 'sha256=' prefix,
\* at the first hex digit, in the middle, at the last character
FlipAt == {1, 8, DigestLen \div 2, DigestLen}

VerifySignatures ==
  {Absent, EmptyStr, ShortJunk}
    \cup {HmacDigest(k, p) : k \in {"s1", "s2"}, p \in RawBodies}
    \cup {Truncated(k, p) : k \in {"s1", "s2"}, p \in RawBodies}
    \cup {Flipped(k, p, i) : k \in {"s1", "s2"}, p \in RawBodies, i \in FlipAt}

InitVerify ==
  /\ config = [testing |-> FALSE, secret |-> [s \in Sources |-> ""]]
  /\ req = [r \in Req |-> NoReq]
  /\ pc = [r \in Req |-> "idle"]
  /\ running = 0
  /\ responses = [r \in Req |-> <<>>]
  /\ hist = [r \in Req |-> NoHist]
  /\ verdict = [r \in Req |-> "none"]
  /\ err = [r \in Req |-> ""]
  /\ via = [r \in Req |-> 0]
  /\ org = 0
  /\ dataApi = 0
  /\ nOrgs = 0
  /\ expired = {}
  /\ sinkRecords = {}
  /\ pcall = NoProcess
  /\ calls = [t \in Task |-> NoApiCall]
  /\ store = {}
  /\ ucall = NoArgCall
  /\ \E p \in VerifyPayloads, g \in VerifySignatures, k \in VerifySecrets :
       vcall = [payload |-> p, signature |-> g, secret |-> k,
                done |-> FALSE, out |-> Returned(FALSE), work |-> 0]

VerifyApply ==
  /\ ~vcall.done
  /\ vcall' = [vcall EXCEPT !.done = TRUE,
                            !.out = verifyGithubSignature(vcall.payload, vcall.signature,
                                                          vcall.secret),
                            !.work = ComparisonWork(vcall.payload, vcall.signature,
                                                    vcall.secret)]
  /\ UNCHANGED <<config, req, pc, running, responses, hist, verdict, err, via,
                 connectorVars, apiVars>>

NextVerify == VerifyApply

SpecVerify == InitVerify /\ [][NextVerify]_vars

\* The webhook routes serve nothing: the state of the dispatcher at rest.
DispatcherAtRest ==
  /\ config = [testing |-> FALSE, secret |-> [s \in Sources |-> ""]]
  /\ req = [r \in Req |-> NoReq]
  /\ pc = [r \in Req |-> "idle"]
  /\ running = 0
  /\ responses = [r \in Req |-> <<>>]
  /\ hist = [r \in Req |-> NoHist]
  /\ verdict = [r \in Req |-> "none"]
  /\ err = [r \in Req |-> ""]
  /\ via = [r \in Req |-> 0]
  /\ sinkRecords = {}
  /\ vcall = NoCall

dispatcherVars ==
  <<config, req, pc, running, responses, hist, verdict, err, via, sinkRecords, vcall>>

\* ------------------------------------------- the connector's methods
\* The methods of the SalesforceConnector singleton, each called directly
\* by up to NumTask callers that may overlap.  The sink (the SDK's dataApi
\* and the org behind it) answers each request with a result or an error, and
\* commits a unit of work as one transaction.

Ops == {"initialize", "createIntegrationRecord", "query", "updateRecord",
        "deleteRecord", "createUnitOfWork", "commitUnitOfWork"}

\* A unit of work as its caller filled it: uow operations, registered under
\* the ReferenceIds 1..uow.  Whether an operation is acceptable is the sink's
\* judgement when the unit is committed.
UowSizes == 0..MaxUowOps

\* this.dataApi.newUnitOfWork(): no operation registered
NewUnitOfWork == {}

\* The ReferenceIds / effects of the request a call submits
RefsOf(c) ==
  CASE c.op = "commitUnitOfWork" -> 1..c.uow
    [] c.op = "query" -> {}
    [] OTHER -> {1}

InFlight(c) == c.pc \notin {"idle", "done"}

\* if (this.dataApi) return;                  (initialize)
InitializeNeverSkips(d) == FALSE
InitializeSkips(d) == d # 0

\* if (!this.dataApi) await this.initialize();   (every other method)
EnsureNever(d) == FALSE
EnsureNeeded(d) == d = 0

\* The call once it has ended with `outcome`.  What it had submitted and
\* counted is gone with its stack frame; the record keeps the outcome, and
\* the handle the request went out on when the sink has just declared that
\* handle's session invalid.
Ended(c, outcome) ==
  [c EXCEPT !.pc = "done", !.out = outcome, !.uow = 0, !.sent = 0, !.conns = 0,
            !.via = IF outcome.error = "INVALID_SESSION" THEN @ ELSE 0]

\* After the connection is ensured: the request goes out on the dataApi held
\* at that moment (a TypeError when there is none); newUnitOfWork is answered
\* by the SDK without a request.
Submitted(c, d) ==
  IF c.op = "initialize" THEN Ended(c, Resolved(TRUE, {}))
  ELSE IF d = 0 THEN Ended(c, Rejected("TypeError"))
  ELSE IF c.op = "createUnitOfWork" THEN Ended(c, Resolved(TRUE, NewUnitOfWork))
  ELSE [c EXCEPT !.pc = "awaitOp", !.sent = @ + 1, !.via = d]

\* The call as it leaves the method's first synchronous block.
Entered(c, d) ==
  IF c.op = "initialize"
  THEN IF InitializeSkips(d) THEN Submitted(c, d)
       ELSE [c EXCEPT !.pc = "awaitConn", !.conns = @ + 1]
  ELSE IF EnsureNeeded(d)
       THEN IF InitializeSkips(d) THEN [c EXCEPT !.pc = "connected"]
            ELSE [c EXCEPT !.pc = "awaitConn", !.conns = @ + 1]
       ELSE Submitted(c, d)

\* catch (error) { logger.error(...); throw error; }: where a method's catch
\* block leaves the call, and with what
PcAfterSinkErrorRetries(error) == "connected"
PcAfterSinkError(error) == "done"

OutAfterSinkErrorSwallowed(error) == Resolved(TRUE, {})
OutAfterSinkError(error) == Rejected(error)

\* What dataApi.query resolves with when the records of set s match: the
\* first batch, its done flag and the number of matches.  A page counts its
\* records; which records they are plays no part in the connector.
QueryPage(s) ==
  [records |-> IF Cardinality(s) <= BatchSize THEN Cardinality(s) ELSE BatchSize,
   done |-> Cardinality(s) <= BatchSize,
   totalSize |-> Cardinality(s)]

ResolvedPage(page) ==
  [kind |-> "return", success |-> TRUE, error |-> "", refs |-> {}, page |-> page]

\* logger.info(...); return result;
OutAfterResultDrained(result) ==
  IF "page" \in DOMAIN result
  THEN [result EXCEPT !.page.done = TRUE, !.page.records = result.page.totalSize]
  ELSE result

OutAfterResult(result) == result

connVars == <<dispatcherVars, pcall, ucall>>
connection == <<org, dataApi, nOrgs>>

InitConn ==
  /\ DispatcherAtRest
  /\ pcall = NoProcess
  /\ org = 0 /\ dataApi = 0 /\ nOrgs = 0 /\ expired = {}
  /\ calls = [t \in Task |-> NoApiCall]
  /\ store = {}
  /\ ucall = NoArgCall

\* Caller t calls a method: the method runs up to its first pending await.
Call(t, op, uow) ==
  /\ calls[t].pc = "idle"
  /\ \A u \in Task : u < t => calls[u].pc # "idle"
  /\ calls' = [calls EXCEPT ![t] = Entered([@ EXCEPT !.op = op, !.uow = uow], dataApi)]
  /\ UNCHANGED <<connVars, connection, expired, store>>

\* getConnection resolves: this.org = ...; this.dataApi = this.org.dataApi;
\* initialize returns and its caller resumes a tick later.
ApiConnResolveOrgOnly(t) ==
  /\ calls[t].pc = "awaitConn"
  /\ nOrgs' = nOrgs + 1
  /\ org' = nOrgs + 1
  /\ calls' = [calls EXCEPT ![t] =
                 IF @.op = "initialize" THEN Submitted(@, nOrgs + 1)
                 ELSE [@ EXCEPT !.pc = "connected"]]
  /\ UNCHANGED <<connVars, dataApi, expired, store>>

ApiConnResolve(t) ==
  /\ calls[t].pc = "awaitConn"
  /\ nOrgs' = nOrgs + 1
  /\ org' = nOrgs + 1
  /\ dataApi' = nOrgs + 1
  /\ calls' = [calls EXCEPT ![t] =
                 IF @.op = "initialize" THEN Submitted(@, nOrgs + 1)
                 ELSE [@ EXCEPT !.pc = "connected"]]
  /\ UNCHANGED <<connVars, expired, store>>

\* getConnection rejects: initialize and the method log and rethrow.
ApiConnRejectKeepsHandle(t) ==
  /\ calls[t].pc = "awaitConn"
  /\ calls' = [calls EXCEPT ![t] = Ended(@, Rejected("connectionFailed"))]
  /\ nOrgs' = nOrgs + 1
  /\ org' = nOrgs + 1
  /\ dataApi' = nOrgs + 1
  /\ expired' = expired \cup {nOrgs + 1}
  /\ UNCHANGED <<connVars, store>>

ApiConnReject(t) ==
  /\ calls[t].pc = "awaitConn"
  /\ calls' = [calls EXCEPT ![t] = Ended(@, Rejected("connectionFailed"))]
  /\ UNCHANGED <<connVars, connection, expired, store>>

\* The method resumes after `await this.initialize()`.
ApiResume(t) ==
  /\ calls[t].pc = "connected"
  /\ calls' = [calls EXCEPT ![t] = Submitted(@, dataApi)]
  /\ UNCHANGED <<connVars, connection, expired, store>>

\* The sink carries the request out; a unit of work in one transaction,
\* all of its operations at once.
SinkApplies(t) ==
  /\ calls[t].pc = "awaitOp"
  /\ calls[t].via \notin expired
  /\ store' = store \cup {<<t, ref>> : ref \in RefsOf(calls[t])}
  /\ calls' = [calls EXCEPT ![t] =
                 Ended(@, OutAfterResult(IF @.op = "query"
                                         THEN ResolvedPage(QueryPage(store))
                                         ELSE Resolved(TRUE, RefsOf(@))))]
  /\ UNCHANGED <<connVars, connection, expired>>

\* The sink answers a create with { id, success: false, errors: [...] }.
SinkUnsuccessful(t) ==
  /\ calls[t].pc = "awaitOp"
  /\ calls[t].via \notin expired
  /\ calls[t].op = "createIntegrationRecord"
  /\ calls' = [calls EXCEPT ![t] = Ended(@, OutAfterResult(Resolved(FALSE, {})))]
  /\ UNCHANGED <<connVars, connection, expired, store>>

SinkError(t, error) ==
  /\ calls' = [calls EXCEPT ![t] =
                 IF PcAfterSinkError(error) = "done"
                 THEN Ended(@, OutAfterSinkError(error))
                 ELSE [@ EXCEPT !.pc = PcAfterSinkError(error),
                                !.out = OutAfterSinkError(error)]]
  /\ UNCHANGED <<connVars, connection, expired, store>>

\* The sink refuses the request for validation reasons: a unit of work when
\* it refuses one of its operations, and then it applies none of them.
SinkRejects(t) ==
  /\ calls[t].pc = "awaitOp"
  /\ calls[t].via \notin expired
  /\ calls[t].op = "commitUnitOfWork" => calls[t].uow >= 1
  /\ SinkError(t, "validation")

\* The sink refuses the request because its session is no longer valid.
SinkSessionInvalid(t) ==
  /\ calls[t].pc = "awaitOp"
  /\ calls[t].via \in expired
  /\ SinkError(t, "INVALID_SESSION")

\* The sink ends a session that is in use.
SessionExpires(o) ==
  /\ o \in 1..nOrgs
  /\ o \notin expired
  /\ \E t \in Task :
       \/ calls[t].pc = "awaitOp" /\ calls[t].via = o
       \/ calls[t].pc \in {"idle", "awaitConn", "connected"} /\ dataApi = o
  /\ expired' = expired \cup {o}
  /\ UNCHANGED <<connVars, connection, calls, store>>

NextConn ==
  \/ \E t \in Task, op \in Ops \ {"commitUnitOfWork"} : Call(t, op, 0)
  \/ \E t \in Task, uow \in UowSizes : Call(t, "commitUnitOfWork", uow)
  \/ \E t \in Task : ApiConnResolve(t)
  \/ \E t \in Task : ApiConnReject(t)
  \/ \E t \in Task : ApiResume(t)
  \/ \E t \in Task : SinkApplies(t)
  \/ \E t \in Task : SinkUnsuccessful(t)
  \/ \E t \in Task : SinkRejects(t)
  \/ \E t \in Task : SinkSessionInvalid(t)
  \/ \E o \in Task : SessionExpires(o)

SpecConn == InitConn /\ [][NextConn]_vars

\* ------------------------------------------- one call of process(data)
\* integration.process(data) on its own: the events are drawn with every
\* combination of the optional keys the transforms read, and the connector
\* is seen from sendToSalesforce: the call either fails before anything is
\* submitted, or submits the record and passes on what the sink answers.

GitHubEvents ==
  {[event |-> e, repository |-> rp, sender |-> sd] :
     e \in {JAbsent, JStr},
     rp \in {JAbsent, JNull, JObj([full_name |-> JAbsent]), JObj([full_name |-> JStr])},
     sd \in {JAbsent, JObj([login |-> JAbsent]), JObj([login |-> JStr])}}

StripeObjects ==
  {JAbsent, JNull}
    \cup {JObj([customer |-> c, amount |-> a]) :
            c \in {JAbsent, JStr}, a \in {JAbsent, JNum(0), JNum(2550)}}

StripeEvents ==
  {[type |-> ty, data |-> d, created |-> cr] :
     ty \in {JAbsent, JStr},
     d \in {JAbsent} \cup {JObj([object |-> ob]) : ob \in StripeObjects},
     cr \in {JAbsent, JNum(0), JNum(1700)}}

SendGridEvents ==
  {[event |-> e, email |-> em, timestamp |-> ts] :
     e \in {JAbsent, JStr}, em \in {JAbsent, JStr},
     ts \in {JAbsent, JNum(0), JNum(1700)}}

\* Events whose time field is present and is not a number
BadTimeEvents(source) ==
  CASE source = "github" -> {}
    [] source = "stripe" -> {[type |-> JStr, data |-> JAbsent, created |-> JStr]}
    [] source = "sendgrid" -> {[event |-> JStr, email |-> JStr, timestamp |-> JStr]}

EventsOf(source) ==
  CASE source = "github" -> GitHubEvents
    [] source = "stripe" -> StripeEvents
    [] source = "sendgrid" -> SendGridEvents

Instants == {1, 2}

InitProcess ==
  /\ DispatcherAtRest
  /\ org = 0 /\ dataApi = 0 /\ nOrgs = 0 /\ expired = {}
  /\ calls = [t \in Task |-> NoApiCall]
  /\ store = {}
  /\ ucall = NoArgCall
  /\ \E source \in Sources, now \in Instants :
       \E data \in EventsOf(source) \cup BadTimeEvents(source) :
         pcall = [NoProcess EXCEPT !.source = source, !.data = data, !.now = now,
                                   !.st = "start"]

\* const recordToCreate = { type: 'Integration__c', fields: data }
RecordToCreate(data) == [type |-> "Integration__c", fields |-> data]

\* catch (error) { logger.error(...); throw error; }
RethrownWrapped(error) == Rejected("Error sending data to Salesforce")
Rethrown(error) == error

processVars == <<dispatcherVars, org, dataApi, nOrgs, expired, calls, store, ucall>>

\* sendToSalesforce up to its await: the transform, then the call of
\* createIntegrationRecord(sfData) unless the transform threw.
SendToSalesforce ==
  /\ pcall.st = "start"
  /\ LET t == transformForSalesforce(pcall.source, pcall.data, pcall.now)
     IN  pcall' = IF t.threw
                  THEN [pcall EXCEPT !.st = "done",
                                     !.out = Rethrown(Rejected("transformThrew"))]
                  ELSE [pcall EXCEPT !.st = "connector"]
  /\ UNCHANGED processVars

\* createIntegrationRecord fails before it submits: no connection.
ConnectorUnavailable ==
  /\ pcall.st = "connector"
  /\ pcall' = [pcall EXCEPT !.st = "done",
                            !.connOut = Rejected("connectionFailed"),
                            !.out = Rethrown(Rejected("connectionFailed"))]
  /\ UNCHANGED processVars

\* await this.dataApi.create(recordToCreate)
ConnectorSubmits ==
  /\ pcall.st = "connector"
  /\ pcall' =
       [pcall EXCEPT
          !.st = "awaitCreate",
          !.sent = Append(@, RecordToCreate(
                     transformForSalesforce(pcall.source, pcall.data, pcall.now).fields))]
  /\ UNCHANGED processVars

\* The sink answers with a result; it comes back through both layers.
ConnectorReturns ==
  /\ pcall.st = "awaitCreate"
  /\ \E success \in BOOLEAN :
       pcall' = [pcall EXCEPT !.st = "done",
                              !.connOut = Resolved(success, {}),
                              !.out = Resolved(success, {})]
  /\ UNCHANGED processVars

\* The sink refuses; both layers log and rethrow.
ConnectorThrows ==
  /\ pcall.st = "awaitCreate"
  /\ \E error \in {"validation", "INVALID_SESSION"} :
       pcall' = [pcall EXCEPT !.st = "done",
                              !.connOut = Rejected(error),
                              !.out = Rethrown(Rejected(error))]
  /\ UNCHANGED processVars

NextProcess ==
  \/ SendToSalesforce
  \/ ConnectorUnavailable
  \/ ConnectorSubmits
  \/ ConnectorReturns
  \/ ConnectorThrows

SpecProcess == InitProcess /\ [][NextProcess]_vars

\* ------------------------------------------- updateRecord, deleteRecord
\* One call of updateRecord(type, id, fields) or deleteRecord(type, id) on a
\* connected connector: what the method hands to dataApi.  The fields may
\* carry an Id key of their own.
RecordTypes == {"Account", "Contact", "Integration__c"}

RecordIds == {JText(1), JText(2)}

UpdateFields ==
  {[Id |-> i, Name |-> n, Industry |-> d] :
     i \in {JAbsent} \cup RecordIds, n \in {JAbsent, JStr}, d \in {JAbsent, JStr}}

\* const recordToUpdate = { type, fields: { Id: id, ...fields } };
RecordToUpdate(type, id, fields) ==
  [call |-> "update", type |-> type, fields |-> Spread([Id |-> id], Present(fields))]

\* this.dataApi.delete(type, id)
DeleteRequest(type, id) == [call |-> "delete", type |-> type, id |-> id]

InitArgs ==
  /\ DispatcherAtRest
  /\ pcall = NoProcess
  /\ org = 1 /\ dataApi = 1 /\ nOrgs = 1 /\ expired = {}
  /\ calls = [t \in Task |-> NoApiCall]
  /\ store = {}
  /\ \/ \E type \in RecordTypes, id \in RecordIds, fields \in UpdateFields :
          ucall = [NoArgCall EXCEPT !.op = "updateRecord", !.type = type, !.id = id,
                                    !.fields = fields]
     \/ \E type \in RecordTypes, id \in RecordIds :
          ucall = [NoArgCall EXCEPT !.op = "deleteRecord", !.type = type, !.id = id]

argVars == <<dispatcherVars, pcall, org, dataApi, nOrgs, expired, calls, store>>

\* await this.dataApi.update(recordToUpdate)
UpdateRecordSubmits ==
  /\ ucall.op = "updateRecord" /\ ~ucall.done
  /\ ucall' = [ucall EXCEPT !.done = TRUE,
                            !.sent = RecordToUpdate(ucall.type, ucall.id, ucall.fields)]
  /\ UNCHANGED argVars

\* await this.dataApi.delete(type, id)
DeleteRecordSubmits ==
  /\ ucall.op = "deleteRecord" /\ ~ucall.done
  /\ ucall' = [ucall EXCEPT !.done = TRUE, !.sent = DeleteRequest(ucall.type, ucall.id)]
  /\ UNCHANGED argVars

NextArgs ==
  \/ UpdateRecordSubmits
  \/ DeleteRecordSubmits

SpecArgs == InitArgs /\ [][NextArgs]_vars

\* ------------------------------------------- the GitHub route's data
\* router.post('/github'): the request has passed verifyRequest; the handler
\* builds data from the x-github-event header, the parsed body and the
\* headers, and hands it to process.  The header names an event kind or is
\* missing; the body carries any of the keys the transform reads, and may
\* carry keys of its own named event and headers.
GitHubHeaders == {[event |-> e] : e \in {JAbsent, JText(1)}}

GitHubBodies ==
  {[event |-> e, repository |-> rp, sender |-> sd, headers |-> h] :
     e \in {JAbsent, JText(1), JText(2)},
     rp \in {JAbsent, JObj([full_name |-> JStr])},
     sd \in {JAbsent, JObj([login |-> JStr])},
     h \in {JAbsent, JText(3), JObj([event |-> JText(2)])}}

\* const event = req.headers['x-github-event'];
\* const data = { event, ...req.body, headers: req.headers };
GitHubData(q) ==
  Spread(Spread([event |-> Field(q.headers, "event")], Present(q.body)),
         [headers |-> JObj(q.headers)])

InitRoute ==
  /\ DispatcherAtRest
  /\ org = 0 /\ dataApi = 0 /\ nOrgs = 0 /\ expired = {}
  /\ calls = [t \in Task |-> NoApiCall]
  /\ store = {}
  /\ ucall = NoArgCall
  /\ \E headers \in GitHubHeaders, body \in GitHubBodies, now \in Instants :
       pcall = [NoProcess EXCEPT !.source = "github", !.now = now, !.st = "route",
                                 !.req = [headers |-> headers, body |-> body]]

\* res.status(202)...; await githubIntegration.process(data)
GitHubRoute ==
  /\ pcall.st = "route"
  /\ pcall' = [pcall EXCEPT !.data = GitHubData(pcall.req), !.st = "start"]
  /\ UNCHANGED processVars

NextRoute ==
  \/ GitHubRoute
  \/ NextProcess

SpecRoute == InitRoute /\ [][NextRoute]_vars

\* ------------------------------------------------------------- claims
\* The request's signature header is the keyed digest of the body as received
\* under the secret configured for its source.
Authentic(cfg, q) ==
  /\ cfg.secret[q.source] # ""
  /\ q.sig = HmacDigest(cfg.secret[q.source], q.raw)

Acknowledged(r) == pc[r] \in {"process", "transform", "create"} /\ responses[r] = <<202>>

\* C1: a 202 is sent only for a request whose signature is authentic under its
\* source's configured secret.  Stated while the handler still holds the
\* request, and for servers that do not run in testing mode.
C1_AckOnlyIfAuthentic ==
  \A r \in Req :
    (Acknowledged(r) /\ ~config.testing) => Authentic(config, req[r])

\* C2: when verifyRequest returns false the handler answers 401 and stops:
\* process, transform, getConnection and create are never called for it.
C2_RejectedStops ==
  \A r \in Req :
    verdict[r] = "false" =>
      /\ pc[r] \in {"reject", "done"}
      /\ pc[r] = "done" => responses[r] = <<401>>
      /\ hist[r] = NoHist
      /\ via[r] = 0
      /\ r \notin sinkRecords

C2_Witness ==
  /\ \A r \in Req : pc[r] = "done"
  /\ \E r \in Req : verdict[r] = "false" /\ responses[r] = <<401>>
  /\ \E r \in Req : r \in sinkRecords

\* C3: the 202 has been sent before process, the transform, getConnection or
\* create is started, hence before the create resolves.
Working(r) ==
  \/ pc[r] \in {"transform", "create", "awaitConn", "connected", "awaitCreate"}
  \/ hist[r].process > 0 \/ hist[r].transform > 0
  \/ hist[r].getConnection > 0 \/ hist[r].create > 0
  \/ r \in sinkRecords

C3_AckBeforeWork ==
  \A r \in Req : Working(r) => responses[r] = <<202>>

C3_Witness ==
  \E r \in Req : pc[r] = "awaitCreate" /\ hist[r].create = 1 /\ responses[r] = <<202>>

\* C4: a failure of process after the 202 ends the request, is logged by the
\* route's catch block exactly once, and sends nothing more: no request ever
\* has more than one response.
Failed(r) == pc[r] = "done" /\ err[r] # ""

C4_FailureLoggedOnceNoSecondResponse ==
  \A r \in Req :
    /\ Len(responses[r]) <= 1
    /\ hist[r].errorLog <= 1
    /\ (verdict[r] = "true" /\ err[r] # "") =>
         /\ pc[r] \in {"catch", "done"}
         /\ responses[r] = <<202>>
         /\ hist[r].infoLog = 0
         /\ hist[r].errorLog = (IF pc[r] = "done" THEN 1 ELSE 0)

C4_Witness ==
  \E r, q \in Req :
    /\ Failed(r) /\ err[r] = "transformThrew" /\ responses[r] = <<202>>
    /\ Failed(q) /\ err[q] \in {"INVALID_SESSION", "validation", "connectionFailed"}
    /\ responses[q] = <<202>>

\* C5: every handled request got exactly one response, 401, 202 or a 5xx;
\* an exception thrown by verifyRequest is answered with a 5xx.
C5_ExactlyOneResponse ==
  \A r \in Req :
    pc[r] = "done" =>
      /\ Len(responses[r]) = 1
      /\ responses[r][1] \in {401, 202, 500}
      /\ verdict[r] = "threw" => responses[r] = <<500>>

\* C6: verifyGithubSignature never throws, and returns false when the payload,
\* the signature header or the secret is missing or empty.
C6_NeverThrows ==
  vcall.done =>
    /\ ~vcall.out.threw
    /\ (vcall.payload.fmt = "empty" \/ Falsy(vcall.signature) \/ vcall.secret = "")
         => vcall.out = Returned(FALSE)

\* C7: verifyGithubSignature returns true exactly when the header equals the
\* digest of the payload under a non-empty secret, and false otherwise.
C7_TrueIffExactDigest ==
  vcall.done =>
    vcall.out = Returned(/\ vcall.payload.fmt # "empty"
                         /\ vcall.secret # ""
                         /\ vcall.signature = HmacDigest(vcall.secret, vcall.payload))

\* C8: outside testing mode a GitHub request is accepted exactly when its
\* header is the digest of the raw body as received under the configured secret.
C8_DigestOverRawBody ==
  \A r \in Req :
    (/\ pc[r] \in {"reject", "ack", "catch"}
     /\ verdict[r] # "none"
     /\ req[r].source = "github"
     /\ ~config.testing)
      => (verdict[r] = "true" <=> Authentic(config, req[r]))

\* C9: at most one getConnection call is pending at any time, and the SDK has
\* never handed the connector more than one live connection.
C9_SingleEstablishment ==
  /\ Cardinality({r \in Req : pc[r] = "awaitConn"}) <= 1
  /\ Cardinality((1..nOrgs) \ expired) <= 1

\* C10: an expired-session failure of the first create is answered by a
\* reconnection and a second submission; it does not reach the caller from
\* the first submission.
C10_ReconnectAndRetry ==
  \A r \in Req :
    err[r] = "INVALID_SESSION" => hist[r].create >= 2

\* Where request r stands in the dispatcher's state machine.  received and
\* verifying are one state here: the handler verifies as soon as it runs.
\* A request is rejected once the 401 is sent and acknowledged once the 202
\* is sent; it has failed once its error is logged and the handler is over.
DState(r) ==
  CASE pc[r] = "idle" -> "none"
    [] pc[r] \in {"verify", "reject", "ack"} -> "verifying"
    [] pc[r] = "catch" /\ verdict[r] = "threw" -> "verifying"
    [] pc[r] = "process" -> "acknowledged"
    [] pc[r] \in {"transform", "create", "awaitConn", "connected", "awaitCreate"}
         -> "processing"
    [] pc[r] = "catch" /\ verdict[r] # "threw" -> "processing"
    [] pc[r] = "done" /\ verdict[r] = "false" -> "rejected"
    [] pc[r] = "done" /\ verdict[r] = "true" /\ err[r] = "" -> "completed"
    [] OTHER -> "failed"

DTransitions ==
  {<<"none", "verifying">>, <<"verifying", "rejected">>,
   <<"verifying", "acknowledged">>, <<"acknowledged", "processing">>,
   <<"processing", "completed">>, <<"processing", "failed">>}

DTerminal == {"rejected", "completed", "failed"}

\* C23: a request changes state only along received/verifying -> rejected |
\* acknowledged -> processing -> completed | failed, and nothing of it
\* changes once it is rejected, completed or failed.
C23_FollowsStateMachine ==
  [][\A r \in Req :
       /\ DState(r)' # DState(r) => <<DState(r), DState(r)'>> \in DTransitions
       /\ DState(r) \in DTerminal =>
            /\ pc'[r] = pc[r] /\ responses'[r] = responses[r]
            /\ hist'[r] = hist[r] /\ err'[r] = err[r]
            /\ (r \in sinkRecords') = (r \in sinkRecords)]_vars


\* C24: under fair scheduling, with every getConnection and sink call
\* settling, a request that got its 202 reaches completed or failed, however
\* the other requests interleave.
C24_AcknowledgedEventuallyEnds ==
  \A r \in Req : (responses[r] = <<202>>) ~> (pc[r] = "done")

C24_Witness ==
  \E r, q \in Req :
    /\ r # q
    /\ responses[r] = <<202>> /\ pc[r] = "done" /\ err[r] = "INVALID_SESSION"
    /\ responses[q] = <<202>> /\ pc[q] = "awaitConn"

\* C25: however the requests in processing interleave, a request's record is
\* submitted at most once, and once when the sink answers it; the record the
\* sink stores and the result or error a request ends with are those of its
\* own submission; and a step in which one request fails leaves the other
\* requests and the connector's org and dataApi as they were.
Fails(r) == err'[r] # err[r]

C25_SafeUnderConcurrency ==
  [][\A r \in Req :
       /\ hist'[r].create <= 1
       /\ pc[r] = "awaitCreate" => hist[r].create = 1 /\ via[r] # 0
       /\ (r \in sinkRecords') # (r \in sinkRecords) =>
            /\ pc[r] = "awaitCreate" /\ via[r] \notin expired
            /\ pc'[r] = "done" /\ err'[r] = ""
       /\ (Fails(r) /\ pc[r] = "awaitCreate") =>
            err'[r] = IF via[r] \in expired THEN "INVALID_SESSION" ELSE "validation"
       /\ Fails(r) =>
            /\ <<org, dataApi, nOrgs, expired, sinkRecords>>' =
                 <<org, dataApi, nOrgs, expired, sinkRecords>>
            /\ \A q \in Req \ {r} :
                 /\ pc'[q] = pc[q] /\ err'[q] = err[q] /\ via'[q] = via[q]
                 /\ hist'[q] = hist[q] /\ responses'[q] = responses[q]]_vars

C25_Witness ==
  \E r, q \in Req :
    /\ r # q /\ nOrgs = 2
    /\ hist[r].getConnection = 1 /\ hist[q].getConnection = 1
    /\ pc[r] = "done" /\ err[r] = "validation" /\ r \notin sinkRecords
    /\ pc[q] = "done" /\ err[q] = "" /\ q \in sinkRecords

\* C27: for header values of the digest's length that are not the digest, the
\* comparison looks at the same number of bytes and answers alike wherever
\* the values depart from the digest.
Mismatching(g, payload, secret) ==
  g.len = DigestLen /\ g # HmacDigest(secret, payload)

Verified(r) ==
  \/ pc[r] \in {"reject", "ack", "process", "transform", "create"}
  \/ pc[r] = "catch" /\ verdict[r] = "threw"

FlagFlipped(cfg) == [cfg EXCEPT !.testing = ~@]

C34_BypassOnlyGitHubTesting ==
  \A r \in Req :
    /\ (Verified(r) /\ req[r].source = "github" /\ config.testing) =>
         /\ verdict[r] = "true"
         /\ \A g \in SigChoices(req[r].raw), k \in Secrets :
              verifyRequest([config EXCEPT !.secret["github"] = k],
                            [req[r] EXCEPT !.sig = g]) = Returned(TRUE)
    /\ (Verified(r) /\ req[r].source = "github" /\ ~config.testing) =>
         /\ verdict[r] = "true" =>
              verifyGithubSignature(JsonStringify(ReqBody(req[r])), req[r].sig,
                                    config.secret["github"]) = Returned(TRUE)
         /\ req[r].sig = Absent => verdict[r] = "false" /\ pc[r] = "reject"
    /\ (Verified(r) /\ req[r].source \in {"stripe", "sendgrid"}) =>
         /\ verifyRequest(FlagFlipped(config), req[r]) = verifyRequest(config, req[r])
         /\ (verdict[r] = "true") = verifyRequest(FlagFlipped(config), req[r]).ret
    /\ (pc[r] = "done" /\ verdict[r] = "false") => responses[r] = <<401>>

C34_Witness ==
  \E r, q \in Req :
    /\ config.testing /\ config.secret["github"] = ""
    /\ req[r].source = "github" /\ req[r].sig = Absent
    /\ pc[r] = "create" /\ responses[r] = <<202>>
    /\ pc[q] = "done" /\ verdict[q] = "false" /\ responses[q] = <<401>>

\* ---- the connector's methods (SpecConn)

Starts(t) == calls[t].pc = "idle" /\ calls'[t].pc # "idle"
Ends(t) == calls[t].pc # "done" /\ calls'[t].pc = "done"
Answered(t) == calls[t].pc = "awaitOp" /\ calls'[t] # calls[t]
Done(t) == calls[t].pc = "done"

\* C11: a call whose request keeps failing for an invalid session ends with
\* that error only after one reconnection and two submissions.
C11_ReconnectsOnceSubmitsTwice ==
  [][\A t \in Task :
       (Ends(t) /\ calls'[t].out.error = "INVALID_SESSION") =>
         /\ calls[t].sent = 2
         /\ calls[t].conns >= 1
         /\ calls'[t].out = Rejected("INVALID_SESSION")]_vars

\* C12: when the sink refuses a request for validation reasons, the call ends
\* there with that error: one submission, no reconnection, org and dataApi as
\* they were.
C12_ValidationErrorNotRetried ==
  [][\A t \in Task :
       (Answered(t) /\ calls'[t].out.error = "validation") =>
         /\ calls'[t].pc = "done"
         /\ calls'[t].out = Rejected("validation")
         /\ calls[t].sent = 1
         /\ \A u \in Task : calls'[u].pc # "awaitConn" \/ calls[u].pc = "awaitConn"
         /\ connection' = connection]_vars

C12_Witness ==
  \E t \in Task :
    /\ Done(t)
    /\ calls[t].op = "updateRecord"
    /\ calls[t].out = Rejected("validation")
    /\ dataApi # 0
    /\ \E u \in Task : calls[u].op = "commitUnitOfWork" /\ calls[u].out = Rejected("validation")

\* The handles on which a call has ended with an invalid-session error
DeadHandles ==
  {calls[u].via : u \in {v \in Task : Done(v) /\ calls[v].out.error = "INVALID_SESSION"}}

\* C13: once a call has failed because the session is invalid, no request
\* goes out on that handle again.
C13_StaleHandleNotReused ==
  [][\A t \in Task :
       (calls[t].pc # "awaitOp" /\ calls'[t].pc = "awaitOp") =>
         calls'[t].via \notin DeadHandles]_vars

Succeeded(t) == Done(t) /\ calls[t].out.kind = "return"

\* C14: nothing is established before the first call; initialize on a live
\* connection starts no attempt and leaves org and dataApi alone; and in a
\* run of calls that do not overlap and all succeed, the first call makes
\* the one establishment attempt and no later call makes another.
C14_LazyIdempotentEstablishment ==
  [][/\ (\A t \in Task : calls[t].pc = "idle") =>
          /\ connection = <<0, 0, 0>>
          /\ \A t \in Task : Starts(t) /\ calls'[t].op # "initialize"
                               => calls'[t].pc = "awaitConn" /\ calls'[t].conns = 1
     /\ \A t \in Task :
          (Starts(t) /\ calls'[t].op = "initialize" /\ dataApi # 0) =>
            /\ calls'[t].pc = "done"
            /\ calls'[t].out.kind = "return"
            /\ connection' = connection
     /\ \A t \in Task :
          (/\ Starts(t)
           /\ \A u \in Task : ~InFlight(calls[u])
           /\ \E u \in Task : Succeeded(u)
           /\ \A u \in Task : Done(u) => Succeeded(u)) =>
            /\ calls'[t].pc # "awaitConn"
            /\ calls'[t].conns = 0
            /\ connection' = connection]_vars

C14_Witness ==
  /\ Succeeded(1) /\ calls[1].op = "query"
  /\ Succeeded(2) /\ calls[2].op = "initialize"
  /\ nOrgs = 1
  /\ dataApi = 1

\* C15: createIntegrationRecord never returns a result the sink marked
\* unsuccessful: such a result ends the call in an error.
C15_UnsuccessfulCreateFails ==
  \A t \in Task :
    (Done(t) /\ calls[t].op = "createIntegrationRecord" /\ calls[t].out.kind = "return")
      => calls[t].out.success

EffectsOf(t) == {ref \in 1..MaxUowOps : <<t, ref>> \in store}

\* C16: commitUnitOfWork submits the unit once, on an ensured connection;
\* when the sink refuses it the call throws and nothing of the unit is in the
\* sink; when the sink accepts it every operation is applied and the result
\* has exactly the unit's ReferenceIds.
C16_CommitAllOrNothing ==
  [][\A t \in Task :
       calls'[t].op = "commitUnitOfWork" =>
         /\ calls'[t].sent <= 1
         /\ calls'[t].pc = "awaitOp" => calls'[t].via # 0 /\ calls'[t].sent = 1
         /\ ~Done(t)' => EffectsOf(t)' = {}
         /\ Ends(t) =>
              IF calls'[t].out.kind = "return"
              THEN /\ calls[t].sent = 1
                   /\ calls'[t].out = Resolved(TRUE, 1..calls[t].uow)
                   /\ store' = store \cup {<<t, ref>> : ref \in 1..calls[t].uow}
              ELSE /\ store' = store
                   /\ EffectsOf(t)' = {}
                   /\ calls'[t].out.kind = "throw"]_vars

C16_Witness ==
  \E t, u \in Task :
    /\ calls[t].op = "commitUnitOfWork" /\ Succeeded(t)
    /\ calls[t].out.refs = 1..MaxUowOps
    /\ EffectsOf(t) = 1..MaxUowOps
    /\ calls[u].op = "commitUnitOfWork" /\ calls[u].out = Rejected("validation")
    /\ EffectsOf(u) = {}

\* C17 as stated: createUnitOfWork never starts an establishment attempt and
\* never fails, connected or not.
C17_NeverTouchesConnection ==
  \A t \in Task :
    calls[t].op = "createUnitOfWork" =>
      /\ calls[t].pc \notin {"awaitConn", "connected"}
      /\ calls[t].out.kind # "throw"

\* C17, amended: createUnitOfWork ensures the connection like every other
\* method.  On a live connection it returns an empty unit at once, starts no
\* attempt and leaves org and dataApi alone; on none it makes one
\* establishment attempt, returns the empty unit when that succeeds and fails
\* only when that attempt fails.  It never sends a request to the sink.
C17_EnsuresConnectionThenEmptyUnit ==
  [][\A t \in Task :
       calls'[t].op = "createUnitOfWork" =>
         /\ calls'[t].sent = 0
         /\ Starts(t) =>
              IF dataApi # 0
              THEN /\ calls'[t].pc = "done"
                   /\ calls'[t].out = Resolved(TRUE, {})
                   /\ connection' = connection
              ELSE calls'[t].pc = "awaitConn" /\ calls'[t].conns = 1
         /\ (Ends(t) /\ calls'[t].out.kind = "return") =>
              calls'[t].out = Resolved(TRUE, {}) /\ dataApi' # 0
         /\ (Ends(t) /\ calls'[t].out.kind = "throw") =>
              /\ calls[t].pc = "awaitConn"
              /\ calls'[t].out = Rejected("connectionFailed")
         /\ store' # store => \E u \in Task : u # t /\ calls'[u] # calls[u]]_vars

C17_Witness ==
  /\ calls[1].op = "createUnitOfWork"
  /\ calls[1].out = Rejected("connectionFailed")
  /\ calls[2].op = "createUnitOfWork"
  /\ Succeeded(2)
  /\ nOrgs = 1

\* C26: a query call ensures the connection, submits its query once and
\* nothing else, changes no record of the sink, and returns the sink's page
\* {records, done, totalSize} as it came: a page with done = false is
\* returned with done = false and no further page is asked for.
C26_QueryReadOnlyOnePage ==
  [][\A t \in Task :
       calls'[t].op = "query" =>
         /\ calls'[t].sent <= 1
         /\ calls'[t].pc = "awaitOp" => calls'[t].via # 0 /\ calls'[t].sent = 1
         /\ (Starts(t) /\ dataApi = 0) => calls'[t].pc = "awaitConn"
         /\ calls'[t] # calls[t] => store' = store
         /\ EffectsOf(t)' = {}
         /\ (Ends(t) /\ calls'[t].out.kind = "return") =>
              /\ calls[t].sent = 1
              /\ calls'[t].out = ResolvedPage(QueryPage(store))]_vars

C26_Witness ==
  \E t \in Task :
    /\ calls[t].op = "query" /\ Done(t) /\ calls[t].out.kind = "return"
    /\ ~calls[t].out.page.done
    /\ calls[t].out.page.records = BatchSize
    /\ calls[t].out.page.totalSize > BatchSize

\* C29: a call whose getConnection is rejected ends there with that error,
\* after its one attempt and with nothing submitted; org, dataApi and the
\* sink's records are as they were, so a connector without a dataApi still
\* has none; and a call that starts after such a failure on a connector
\* without a dataApi makes an attempt of its own.
ConnectionFailed(c) == c.pc = "done" /\ c.out = Rejected("connectionFailed")

C29_EstablishmentFailureNotSticky ==
  [][\A t \in Task :
       /\ (calls[t].pc = "awaitConn" /\ calls'[t].pc \notin {"awaitConn", "connected"}
           /\ calls'[t].out.kind # "return") =>
            /\ ConnectionFailed(calls'[t])
            /\ calls[t].conns = 1 /\ calls[t].sent = 0
            /\ connection' = connection /\ expired' = expired
            /\ store' = store
       /\ ConnectionFailed(calls'[t]) => EffectsOf(t)' = {}
       /\ (/\ Starts(t)
           /\ dataApi = 0
           /\ \E u \in Task : ConnectionFailed(calls[u])) =>
            /\ calls'[t].pc = "awaitConn"
            /\ calls'[t].conns = 1
            /\ calls'[t].sent = 0]_vars

C29_Witness ==
  /\ ConnectionFailed(calls[1])
  /\ calls[1].op = "createIntegrationRecord"
  /\ Succeeded(2) /\ calls[2].op = "createIntegrationRecord"
  /\ nOrgs = 1 /\ dataApi = 1
  /\ store = {<<2, 1>>}

\* C33: in every state the connector's dataApi, when set, is the dataApi of
\* its current org; every request in flight went out on a dataApi the SDK
\* handed out; and no call has ended on the TypeError of submitting through a
\* missing dataApi.
C33_ConnectorStateInvariant ==
  /\ org \in 0..nOrgs
  /\ dataApi # 0 => org # 0 /\ dataApi = org
  /\ \A t \in Task :
       /\ calls[t].pc = "awaitOp" => calls[t].via \in 1..nOrgs
       /\ calls[t].pc = "connected" => dataApi # 0
       /\ Done(t) => calls[t].out # Rejected("TypeError")

C33_Witness ==
  \E t, u \in Task :
    /\ ConnectionFailed(calls[t])
    /\ calls[u].pc = "awaitOp" /\ calls[u].op = "updateRecord"
    /\ calls[u].via = dataApi /\ dataApi = org /\ nOrgs = 1

\* ---- process(data) and the transforms (SpecProcess)

TransformOfCall == transformForSalesforce(pcall.source, pcall.data, pcall.now)
Transformed == pcall.st \notin {"none", "start"}

\* C18: process(data) transforms and then submits exactly one create, of
\* type Integration__c with the transform's output as its fields; it returns
\* what the connector returned and throws what the connector threw, unchanged;
\* when the transform throws, nothing is submitted.
C18_ProcessSubmitsTransformOnce ==
  /\ Len(pcall.sent) <= 1
  /\ Len(pcall.sent) = 1 =>
       /\ Transformed /\ ~TransformOfCall.threw
       /\ pcall.sent[1] = [type |-> "Integration__c", fields |-> TransformOfCall.fields]
  /\ pcall.connOut.kind = "return" => Len(pcall.sent) = 1
  /\ pcall.connOut.error \in {"validation", "INVALID_SESSION"} => Len(pcall.sent) = 1
  /\ pcall.st = "done" =>
       IF TransformOfCall.threw
       THEN pcall.sent = <<>> /\ pcall.connOut = NoOutcome /\ pcall.out.kind = "throw"
       ELSE pcall.connOut.kind # "none" /\ pcall.out = pcall.connOut

C18_Witness ==
  /\ pcall.st = "done"
  /\ pcall.source = "stripe"
  /\ Len(pcall.sent) = 1
  /\ pcall.sent[1].fields.Amount__c = [t |-> "dec", n |-> 25, c |-> 50]
  /\ pcall.out = Rejected("validation")

BaseKeys == {"Name", "Source__c", "Raw_Data__c", "Status__c"}

VariantKeys(source) ==
  CASE source = "github" -> {"Event_Type__c", "Repository__c", "Sender__c"}
    [] source = "stripe" -> {"Event_Type__c", "Customer_Id__c", "Amount__c", "Created__c"}
    [] source = "sendgrid" -> {"Event_Type__c", "Email__c", "Timestamp__c"}

\* C19: whatever the variant and the event, the record a transform returns
\* carries the base fields with the base values (Name from the source name
\* and the instant, Source__c the source name, Raw_Data__c the event
\* serialised, Status__c 'Received'), and the variant's own fields beside them.
C19_BaseFieldsAlwaysPresent ==
  (Transformed /\ ~TransformOfCall.threw) =>
    LET f == TransformOfCall.fields
    IN  /\ BaseKeys \subseteq DOMAIN f
        /\ f["Name"] = <<IntegrationName(pcall.source), "Integration", pcall.now>>
        /\ f["Source__c"] = IntegrationName(pcall.source)
        /\ f["Raw_Data__c"] = [obj |-> pcall.data, fmt |-> "compact"]
        /\ f["Status__c"] = "Received"
        /\ DOMAIN f = BaseKeys \cup VariantKeys(pcall.source)

C19_Witness ==
  /\ pcall.source = "github"
  /\ Len(pcall.sent) = 1
  /\ pcall.sent[1].fields["Repository__c"] = JStr
  /\ pcall.sent[1].fields["Source__c"] = "GitHub"

\* data[k1][k2]...: undefined as soon as a key is missing on the way
Top(data, key) == IF key \in DOMAIN data THEN data[key] ELSE JAbsent
Sub(v, key) == IF v.t = "obj" /\ key \in DOMAIN v.o THEN v.o[key] ELSE JAbsent
Nothing(v) == v.t \in {"absent", "null"}

\* The pairs <<source field, target field>> of each variant
Mapping(source, data) ==
  CASE source = "github" ->
         {<<Top(data, "event"), "Event_Type__c">>,
          <<Sub(Top(data, "repository"), "full_name"), "Repository__c">>,
          <<Sub(Top(data, "sender"), "login"), "Sender__c">>}
    [] source = "stripe" ->
         {<<Top(data, "type"), "Event_Type__c">>,
          <<Sub(Sub(Top(data, "data"), "object"), "customer"), "Customer_Id__c">>,
          <<Sub(Sub(Top(data, "data"), "object"), "amount"), "Amount__c">>,
          <<Top(data, "created"), "Created__c">>}
    [] source = "sendgrid" ->
         {<<Top(data, "event"), "Event_Type__c">>,
          <<Top(data, "email"), "Email__c">>,
          <<Top(data, "timestamp"), "Timestamp__c">>}

\* C20: whichever of the optional fields an event lacks (the fields it has
\* holding values of their kind), the transform returns a record, and the
\* target of every missing source field is undefined or null.
C20_MissingOptionalNeverFails ==
  (Transformed /\ pcall.data \in EventsOf(pcall.source)) =>
    /\ ~TransformOfCall.threw
    /\ pcall.out.error # "transformThrew"
    /\ \A m \in Mapping(pcall.source, pcall.data) :
         Nothing(m[1]) => Nothing(TransformOfCall.fields[m[2]])

C20_Witness ==
  /\ pcall.source = "stripe"
  /\ Top(pcall.data, "data") = JAbsent
  /\ Top(pcall.data, "created") = JAbsent
  /\ Len(pcall.sent) = 1
  /\ pcall.sent[1].fields["Amount__c"] = JNull
  /\ pcall.sent[1].fields["Customer_Id__c"] = JAbsent

\* C21: a Stripe amount of n minor units, n >= 0, comes out as n/100, and
\* Amount__c is null only when the event carries no amount.
C21_AmountIsHundredths ==
  (Transformed /\ pcall.source = "stripe" /\ ~TransformOfCall.threw) =>
    LET amount == Sub(Sub(Top(pcall.data, "data"), "object"), "amount")
        out == TransformOfCall.fields["Amount__c"]
    IN  /\ (amount.t = "num" /\ amount.n >= 0) =>
             out = [t |-> "dec", n |-> amount.n \div 100, c |-> amount.n % 100]
        /\ out = JNull => amount = JAbsent

\* The record without the field that embeds the instant of the call
WithoutName(f) == [k \in DOMAIN f \ {"Name"} |-> f[k]]

\* C22: a transform of the same event at another instant throws or returns
\* alike, and returns the same keys with the same values, Name apart; the
\* transform reads nothing but its source name, the event and the clock.
C22_TransformDeterministic ==
  Transformed =>
    \A other \in Instants :
      LET again == transformForSalesforce(pcall.source, pcall.data, other)
      IN  /\ again.threw = TransformOfCall.threw
          /\ DOMAIN again.fields = DOMAIN TransformOfCall.fields
          /\ WithoutName(again.fields) = WithoutName(TransformOfCall.fields)
          /\ (pcall.sent # <<>>) =>
               WithoutName(pcall.sent[1].fields) = WithoutName(again.fields)

C22_Witness ==
  /\ Len(pcall.sent) = 1
  /\ pcall.source = "stripe"
  /\ pcall.now = 2
  /\ pcall.sent[1].fields["Created__c"] = [t |-> "iso", n |-> 1700000]
  /\ pcall.sent[1].fields["Name"] #
       transformForSalesforce(pcall.source, pcall.data, 1).fields["Name"]

\* C30: a Stripe created or SendGrid timestamp of t seconds, t = 0 included,
\* comes out as the ISO-8601 instant t seconds after the epoch, and the
\* field is null only when the event carries no such value.
C30_TimestampFromEpochSeconds ==
  (Transformed /\ pcall.source \in {"stripe", "sendgrid"} /\ ~TransformOfCall.threw) =>
    LET seconds == IF pcall.source = "stripe" THEN Top(pcall.data, "created")
                   ELSE Top(pcall.data, "timestamp")
        out == IF pcall.source = "stripe" THEN TransformOfCall.fields["Created__c"]
               ELSE TransformOfCall.fields["Timestamp__c"]
    IN  /\ seconds.t = "num" => out = [t |-> "iso", n |-> seconds.n * 1000]
        /\ out = JNull => seconds = JAbsent

\* ---- the GitHub route (SpecRoute)

\* C31: the record submitted for a GitHub request carries in Event_Type__c
\* the event kind of the request's x-github-event header, whatever keys the
\* body has, and the headers handed on with the event are the request's.
C31_EventTypeFromHeader ==
  (pcall.source = "github" /\ pcall.st \notin {"none", "route"}) =>
    /\ Top(pcall.data, "headers") = JObj(pcall.req.headers)
    /\ TransformOfCall.fields["Event_Type__c"] = Field(pcall.req.headers, "event")
    /\ Len(pcall.sent) = 1 =>
         pcall.sent[1].fields["Event_Type__c"] = Field(pcall.req.headers, "event")

\* ---- updateRecord and deleteRecord (SpecArgs)

\* C32: updateRecord submits a record of the given type whose Id is the id
\* argument, whatever the fields hold, an Id of their own included;
\* deleteRecord submits exactly its type and id.
C32_UpdateAddressesIdArgument ==
  ucall.done =>
    IF ucall.op = "updateRecord"
    THEN /\ ucall.sent.call = "update"
         /\ ucall.sent.type = ucall.type
         /\ ucall.sent.fields["Id"] = ucall.id
    ELSE ucall.sent = [call |-> "delete", type |-> ucall.type, id |-> ucall.id]

====
